---- MODULE Spec2Model ----
(***************************************************************************)
(* Model of the Spotify listening-history pipeline:                        *)
(*   - the retry/backoff wrapper (backoff_on_client_error),                *)
(*   - the Recently-Played Fetcher (lambda_handler of get_recently_played),*)
(*     in its status-returning and its exception-raising generation,       *)
(*   - the ETL Transformer (lambda_handler of perform_etl).                *)
(***************************************************************************)
EXTENDS Integers, Sequences, FiniteSets, TLC

VARIABLES
    \* ---- retry wrapper around one operation -------------------------
    w_state,     \* "ready" | "running" | "returned" | "raised"
    w_tries,     \* number of invocations of the wrapped operation so far
    w_errs,      \* errors raised by the attempts, in order
    w_class,     \* is_retryable_exception() as evaluated for each of them
    w_raised,    \* the error that left the wrapper (NoError when none)
    \* ---- world around the Fetcher ------------------------------------
    handler,     \* which lambda_handler this execution environment runs
    clock,       \* wall clock, in ticks
    plays,       \* timestamps of the play events that have occurred
    issued,      \* number of the refresh token the provider issued last
    store,       \* Parameter Store: spotify_refresh_token, spotify_last_fetched_time
    raw,         \* raw/ objects of the bucket: key -> item list
    \* ---- one Fetcher cycle -------------------------------------------
    pc,          \* position of lambda_handler
    tries,       \* attempts made so far by the wrapped call in progress
    loc,         \* locals of lambda_handler
    outcome,     \* how the last cycle left lambda_handler
    order,       \* stages of this cycle in the order of their first call
    cycles,      \* cycles started
    atStart,     \* store, raw objects and clock when this cycle started
    prev,        \* `after` value and end of the cycle before
    \* ---- ETL Transformer ---------------------------------------------
    t_event,     \* the S3 notification that triggers the Transformer
    t_objects,   \* raw/ objects of the triggering bucket: key -> JSON list
    processed,   \* processed/ objects: key -> track records and writing invocation
    t_pc,        \* position of the Transformer's lambda_handler
    t_tries,     \* attempts made so far by the wrapped S3 call in progress
    t_loc,       \* locals of the Transformer's lambda_handler
    t_outcome,   \* how the last invocation left lambda_handler
    t_calls,     \* S3 calls made by this invocation: reads, writes
    t_runs,      \* invocations started
    \* ---- two Fetcher cycles against one Token Store -------------------
    r_pc,        \* position of each of the two lambda_handler executions
    r_loc,       \* their locals
    r_log,       \* watermark writes so far: value stored and its writer
    r_overlap,   \* whether the two executions have been in flight at once
    r_cycles,    \* cycles started by either execution
    \* ---- a pure function applied to one argument ----------------------
    f_arg,       \* the argument
    f_res,       \* what the call returned or raised ("none" before the call)
    \* ---- one call of check_parameter_exists ---------------------------
    x_name,      \* the parameter name asked for
    x_store,     \* names the Parameter Store holds
    x_responses, \* what the store answered to each get_parameter call
    x_result,    \* "none" | "true" | "false": what the call returned
    \* ---- one call of request_access_token -----------------------------
    q_type,      \* authorization_type
    q_token,     \* auth_token
    q_sent,      \* form data of the POST requests sent, in order
    \* ---- the one-time authorization app (auth_flow.py) ----------------
    a_stored_state, \* the global stored_state (NoState for None)
    a_generated, \* number of state values generate_state has returned
    a_accepted,  \* states that passed the state check, in order
    a_exchanges, \* token exchanges requested by callbacks
    a_params,    \* parameters the callbacks have created: name -> value
    a_last,      \* the last request and its response
    \* ---- two raw writes and their object keys -------------------------
    k_instants,  \* the two instants (epoch seconds) of the writes
    k_keys,      \* the stamps of their object keys (<< >> before the writes)
    \* ---- one play on the dashboard's heatmap --------------------------
    h_year,      \* the year selected in the sidebar
    h_day,       \* the day of that year (1 = January 1) the track was played
    h_cell       \* the heatmap cell computed for it (NoCell before)

wrapperVars == <<w_state, w_tries, w_errs, w_class, w_raised>>

worldVars == <<handler, clock, plays, issued, store, raw>>

cycleVars == <<pc, tries, loc, outcome, order, cycles, atStart, prev>>

etlVars == <<t_event, t_objects, processed, t_pc, t_tries, t_loc, t_outcome, t_calls, t_runs>>

raceVars == <<r_pc, r_loc, r_log, r_overlap, r_cycles>>

pureVars == <<f_arg, f_res>>

existsVars == <<x_name, x_store, x_responses, x_result>>

exchangeVars == <<q_type, q_token, q_sent>>

authVars == <<a_stored_state, a_generated, a_accepted, a_exchanges, a_params, a_last>>

keyVars == <<k_instants, k_keys>>

heatVars == <<h_year, h_day, h_cell>>

otherVars == <<existsVars, exchangeVars, authVars, keyVars, heatVars>>

auxVars == <<raceVars, pureVars, otherVars>>

vars == <<wrapperVars, worldVars, cycleVars, etlVars, auxVars>>

(***************************************************************************)
(* Errors.  An exception is a record: its Python type, the botocore error  *)
(* code (ClientError) and the HTTP status (HTTPError).                     *)
(***************************************************************************)
ClientErrorCodes == {"InternalServerError", "AccessDenied", "NoSuchKey", "ParameterNotFound"}

HTTPStatuses == {400, 401, 403, 404, 429, 500, 502, 503, 504}

ClientError(c) == [type |-> "ClientError", code |-> c, status |-> 0]

HTTPError(s) == [type |-> "HTTPError", code |-> "", status |-> s]

\* an exception that is neither botocore ClientError nor requests HTTPError
OtherError(n) == [type |-> "Other", code |-> n, status |-> 0]

NoError == [type |-> "None", code |-> "", status |-> 0]

Errors ==
    {ClientError(c) : c \in ClientErrorCodes}
        \cup {HTTPError(s) : s \in HTTPStatuses}
        \cup {OtherError("ValueError"), OtherError("ConnectionError")}

(***************************************************************************)
(* Retry wrapper                                                           *)
(***************************************************************************)
max_tries == 5

is_retryable_exception_StatusOnly(e) ==
    IF e.type = "ClientError"
    THEN FALSE
    ELSE IF e.type = "HTTPError"
         THEN e.status \in {429, 500, 502, 503, 504}
         ELSE FALSE

is_retryable_exception(e) ==
    IF e.type = "ClientError"
    THEN e.code \in {"InternalServerError"}
    ELSE IF e.type = "HTTPError"
         THEN e.status \in {429, 500, 502, 503, 504}
         ELSE FALSE

\* exception classes handed to backoff.on_exception
BackoffCaught == {"ClientError", "HTTPError"}

\* What backoff.on_exception does with error e raised by attempt number
\* n (counted from 1): another attempt, or let e leave the wrapper.
BackoffDecision_SixTries(e, n) ==
    IF e.type \notin BackoffCaught
    THEN "raise"
    ELSE IF (~ is_retryable_exception(e)) \/ n = max_tries + 1
         THEN "raise"
         ELSE "retry"

BackoffDecision_NoGiveup(e, n) ==
    IF e.type \notin BackoffCaught
    THEN "raise"
    ELSE IF n = max_tries
         THEN "raise"
         ELSE "retry"

BackoffDecision(e, n) ==
    IF e.type \notin BackoffCaught
    THEN "raise"
    ELSE IF (~ is_retryable_exception(e)) \/ n = max_tries
         THEN "raise"
         ELSE "retry"

WrapperInit ==
    /\ w_state = "ready"
    /\ w_tries = 0
    /\ w_errs = <<>>
    /\ w_class = <<>>
    /\ w_raised = NoError

\* wrapper(*args): the decorated function is called
WrapperCall ==
    /\ w_state = "ready"
    /\ w_state' = "running"
    /\ UNCHANGED <<w_tries, w_errs, w_class, w_raised>>
    /\ UNCHANGED <<worldVars, cycleVars, etlVars, auxVars>>

\* one invocation of func that returns normally
WrapperAttemptOk ==
    /\ w_state = "running"
    /\ w_tries' = w_tries + 1
    /\ w_state' = "returned"
    /\ UNCHANGED <<w_errs, w_class, w_raised>>
    /\ UNCHANGED <<worldVars, cycleVars, etlVars, auxVars>>

\* one invocation of func that raises e
WrapperAttemptFail ==
    /\ w_state = "running"
    /\ \E e \in Errors :
        /\ w_tries' = w_tries + 1
        /\ w_errs' = Append(w_errs, e)
        /\ w_class' = Append(w_class, is_retryable_exception(e))
        /\ IF BackoffDecision(e, w_tries + 1) = "raise"
           THEN /\ w_state' = "raised"
                /\ w_raised' = e
           ELSE /\ w_state' = "running"
                /\ w_raised' = w_raised
    /\ UNCHANGED <<worldVars, cycleVars, etlVars, auxVars>>

(***************************************************************************)
(* Bounds of the model                                                     *)
(***************************************************************************)
MaxClock == 3

MaxCycles == 2

MaxTokens == 2

MaxEvents == 2

MaxRuns == 2

\* /login requests served by the authorization app
MaxLogins == 3

\* quarter hours before and after the return to standard time
MaxQuarters == 6

\* the last year the dashboard's clock reaches
MaxYear == 2028

\* clock ticks per second of the raw object's key stamp
TicksPerSecond == 1

(***************************************************************************)
(* World around the Fetcher: clock, listener, identity provider, stores    *)
(***************************************************************************)
Handlers == {"fetcher_status", "fetcher_raise", "etl"}

FetcherHandlers == {"fetcher_status", "fetcher_raise"}

Stages == {"get_rt", "get_wm", "exchange", "api", "write", "put_rt", "put_wm"}

\* failures the Parameter Store and S3 clients produce in the model
AwsErrors == {ClientError("InternalServerError"), ClientError("AccessDenied"),
              OtherError("ConnectionError")}

\* failures the requests calls produce in the model
HttpErrors == {HTTPError(401), HTTPError(429), HTTPError(503),
               OtherError("ConnectionError")}

\* get_current_unix_timestamp_milliseconds(): the clock, in ticks
get_current_unix_timestamp_milliseconds_Ahead(t) == t + 1

get_current_unix_timestamp_milliseconds(t) == t

\* limit=50 of the recently-played URL
Limit == 50

\* GET /me/player/recently-played?limit=50&after=<after>: the play events
\* later than `after`, at most Limit of them
RecentlyPlayed(after) ==
    LET later == {t \in plays : t > after}
    IN  IF Cardinality(later) <= Limit
        THEN {later}
        ELSE {s \in SUBSET later : Cardinality(s) = Limit}

\* datetime.now(cst_timezone).strftime('%Y%m%d%H%M%S'): the stamp of the
\* second the clock is in
current_timestamp(t) == t \div TicksPerSecond

NoLocals ==
    [refresh_token |-> 0, last_refresh_timestamp |-> 0, access_token |-> "none",
     after |-> -1, fetched |-> FALSE, items |-> {}, object_path |-> -1]

\* How a cycle left lambda_handler: returned a status or raised; the stage
\* that failed ("none" when none did), its error, and the number of calls
\* that stage had made.
NoOutcome == [kind |-> "none", statusCode |-> 0, stage |-> "none", err |-> NoError, calls |-> 0]

Returned(code, stage, e, n) ==
    [kind |-> "return", statusCode |-> code, stage |-> stage, err |-> e, calls |-> n]

Raised(stage, e, n) ==
    [kind |-> "raise", statusCode |-> 0, stage |-> stage, err |-> e, calls |-> n]

\* the watermark the one-time authorization flow left in the store
InitialWatermark == 0

WorldInit ==
    /\ clock = 0
    /\ plays = {}
    /\ issued = 1
    /\ store = [spotify_refresh_token |-> 1, spotify_last_fetched_time |-> InitialWatermark]
    /\ raw = << >>

CycleInit ==
    /\ pc = "idle"
    /\ tries = 0
    /\ loc = NoLocals
    /\ outcome = NoOutcome
    /\ order = << >>
    /\ cycles = 0
    /\ atStart = [store |-> store, raw |-> raw, clock |-> clock]
    /\ prev = [after |-> -1, kind |-> "none", stage |-> "none"]

\* time passes (the Transformer reads no clock)
Tick ==
    /\ handler \in FetcherHandlers
    /\ clock < MaxClock
    /\ clock' = clock + 1
    /\ UNCHANGED <<wrapperVars, auxVars, etlVars, handler, plays, issued, store, raw, cycleVars>>

\* the listener finishes a track: a play event stamped with the new instant
Play ==
    /\ handler \in FetcherHandlers
    /\ clock < MaxClock
    /\ clock' = clock + 1
    /\ plays' = plays \cup {clock + 1}
    /\ UNCHANGED <<wrapperVars, auxVars, etlVars, handler, issued, store, raw, cycleVars>>

(***************************************************************************)
(* Recently-Played Fetcher: lambda_handler                                 *)
(***************************************************************************)
\* the exception class the try block around a stage catches
CaughtBy(stage) == IF stage \in {"exchange", "api"} THEN "HTTPError" ELSE "ClientError"

\* status-returning handler: a caught stage error becomes statusCode 500,
\* any other exception leaves lambda_handler
StatusFailure_AlwaysReturns(stage, e, n) == Returned(500, stage, e, n)

StatusFailure(stage, e, n) ==
    IF e.type = CaughtBy(stage) THEN Returned(500, stage, e, n) ELSE Raised(stage, e, n)

\* raising handler: a caught stage error is logged and raised again
RaiseFailure(stage, e, n) == Raised(stage, e, n)

HandlerFailure(stage, e, n) ==
    IF handler = "fetcher_status" THEN StatusFailure(stage, e, n) ELSE RaiseFailure(stage, e, n)

\* `if not access_token or access_token == ''`
NoAccessToken_OnlyAbsent(tok) == tok = "absent"

NoAccessToken(tok) == tok \in {"absent", ""}

NoTokenOutcome ==
    IF handler = "fetcher_status"
    THEN Returned(404, "exchange", NoError, 0)
    ELSE Raised("exchange", OtherError("Exception"), 0)

\* `if recently_played_data.get('items', [])`
HasItems_Always(items) == TRUE

HasItems(items) == items # {}

\* the stage lambda_handler goes to when `stage` succeeded with locals l
NextStage_WatermarkFirst(stage, l) ==
    CASE stage = "get_rt" -> "get_wm"
      [] stage = "get_wm" -> "exchange"
      [] stage = "exchange" -> IF NoAccessToken(l.access_token) THEN "idle" ELSE "api"
      [] stage = "api" -> IF HasItems(l.items) THEN "write" ELSE "idle"
      [] stage = "write" -> "put_wm"
      [] stage = "put_wm" -> IF l.refresh_token # 0 THEN "put_rt" ELSE "idle"
      [] stage = "put_rt" -> "idle"

NextStage_NoTokenUpdate(stage, l) ==
    CASE stage = "get_rt" -> "get_wm"
      [] stage = "get_wm" -> "exchange"
      [] stage = "exchange" -> IF NoAccessToken(l.access_token) THEN "idle" ELSE "api"
      [] stage = "api" -> IF HasItems(l.items) THEN "write" ELSE "idle"
      [] stage = "write" -> "put_wm"
      [] stage = "put_rt" -> "put_wm"
      [] stage = "put_wm" -> "idle"

NextStage(stage, l) ==
    CASE stage = "get_rt" -> "get_wm"
      [] stage = "get_wm" -> "exchange"
      [] stage = "exchange" -> IF NoAccessToken(l.access_token) THEN "idle" ELSE "api"
      [] stage = "api" -> IF HasItems(l.items) THEN "write" ELSE "idle"
      [] stage = "write" -> IF l.refresh_token # 0 THEN "put_rt" ELSE "put_wm"
      [] stage = "put_rt" -> "put_wm"
      [] stage = "put_wm" -> "idle"

\* what lambda_handler has returned or raised when `stage` succeeded and
\* no stage follows
EndOutcome(stage, l) ==
    CASE stage = "exchange" -> NoTokenOutcome
      [] stage = "api" -> Returned(204, "none", NoError, 0)
      [] OTHER -> Returned(200, "none", NoError, 0)

\* an outbound call of `stage` is made
Called(stage) ==
    order' = IF tries = 0 THEN Append(order, stage) ELSE order

\* the call of `stage` returned normally, leaving the locals l
Succeed(stage, l) ==
    /\ loc' = l
    /\ tries' = 0
    /\ pc' = NextStage(stage, l)
    /\ outcome' = IF NextStage(stage, l) = "idle" THEN EndOutcome(stage, l) ELSE outcome

\* the call of `stage` raised e; wrapped calls go through the retry wrapper
Fail(stage, e, wrapped, l) ==
    /\ loc' = l
    /\ IF wrapped /\ BackoffDecision(e, tries + 1) = "retry"
       THEN /\ tries' = tries + 1
            /\ UNCHANGED <<pc, outcome>>
       ELSE /\ tries' = 0
            /\ pc' = "idle"
            /\ outcome' = HandlerFailure(stage, e, tries + 1)

\* lambda_handler(event, context) is invoked
StartCycle ==
    /\ handler \in FetcherHandlers
    /\ pc = "idle"
    /\ cycles < MaxCycles
    /\ pc' = "get_rt"
    /\ tries' = 0
    /\ loc' = NoLocals
    /\ outcome' = NoOutcome
    /\ order' = << >>
    /\ cycles' = cycles + 1
    /\ atStart' = [store |-> store, raw |-> raw, clock |-> clock]
    /\ prev' = [after |-> loc.after, kind |-> outcome.kind, stage |-> outcome.stage]
    /\ UNCHANGED <<wrapperVars, auxVars, etlVars, worldVars>>

\* get_parameter('spotify_refresh_token')
GetRefreshToken ==
    /\ pc = "get_rt"
    /\ Called("get_rt")
    /\ \/ Succeed("get_rt", [loc EXCEPT !.refresh_token = store.spotify_refresh_token])
       \/ \E e \in AwsErrors : Fail("get_rt", e, TRUE, loc)
    /\ UNCHANGED <<wrapperVars, auxVars, etlVars, worldVars, cycles, atStart, prev>>

\* get_parameter('spotify_last_fetched_time')
GetLastFetchedTime ==
    /\ pc = "get_wm"
    /\ Called("get_wm")
    /\ \/ Succeed("get_wm",
                  [loc EXCEPT !.last_refresh_timestamp = store.spotify_last_fetched_time])
       \/ \E e \in AwsErrors : Fail("get_wm", e, TRUE, loc)
    /\ UNCHANGED <<wrapperVars, auxVars, etlVars, worldVars, cycles, atStart, prev>>

\* request_access_token('refresh_auth_token', refresh_token) and the reading
\* of access_token and refresh_token from its response
RequestAccessToken ==
    /\ pc = "exchange"
    /\ Called("exchange")
    /\ \/ \E tok \in {"token", "", "absent"} :
          \E new \in {0} \cup {t \in {issued + 1} : t <= MaxTokens} :
            /\ issued' = IF new # 0 THEN new ELSE issued
            /\ Succeed("exchange", [loc EXCEPT !.access_token = tok, !.refresh_token = new])
       \/ /\ \E e \in HttpErrors : Fail("exchange", e, TRUE, loc)
          /\ UNCHANGED issued
    /\ UNCHANGED <<wrapperVars, auxVars, etlVars, handler, clock, plays, store, raw, cycles, atStart, prev>>

\* requests.get(recently_played_url), raise_for_status, response.json();
\* with items, the object path is stamped with the current second
GetRecentlyPlayed ==
    /\ pc = "api"
    /\ Called("api")
    /\ LET sent == [loc EXCEPT !.after = loc.last_refresh_timestamp]
       IN  \/ \E its \in RecentlyPlayed(sent.after) :
                Succeed("api", [sent EXCEPT !.fetched = TRUE,
                                            !.items = its,
                                            !.object_path =
                                                IF HasItems(its)
                                                THEN current_timestamp(clock)
                                                ELSE -1])
           \/ \E e \in HttpErrors : Fail("api", e, FALSE, sent)
    /\ UNCHANGED <<wrapperVars, auxVars, etlVars, worldVars, cycles, atStart, prev>>

\* S3 put_object: creates the object or replaces the one under the key
put_object(objects, key, body) ==
    [k \in (DOMAIN objects) \cup {key} |-> IF k = key THEN body ELSE objects[k]]

\* write_to_s3(bucket, object_path, items); afterwards, unless a new refresh
\* token has to be stored first, the clock is read for the new watermark
WriteToS3 ==
    /\ pc = "write"
    /\ Called("write")
    /\ \/ /\ raw' = put_object(raw, loc.object_path, loc.items)
          /\ Succeed("write",
                     IF NextStage("write", loc) = "put_wm"
                     THEN [loc EXCEPT !.last_refresh_timestamp =
                              get_current_unix_timestamp_milliseconds(clock)]
                     ELSE loc)
       \/ /\ \E e \in AwsErrors : Fail("write", e, TRUE, loc)
          /\ UNCHANGED raw
    /\ UNCHANGED <<wrapperVars, auxVars, etlVars, handler, clock, plays, issued, store, cycles, atStart, prev>>

\* create_or_update_parameter('spotify_refresh_token', refresh_token), then
\* get_current_unix_timestamp_milliseconds()
PutRefreshToken ==
    /\ pc = "put_rt"
    /\ Called("put_rt")
    /\ \/ /\ store' = [store EXCEPT !.spotify_refresh_token = loc.refresh_token]
          /\ Succeed("put_rt",
                     IF NextStage("put_rt", loc) = "put_wm"
                     THEN [loc EXCEPT !.last_refresh_timestamp =
                              get_current_unix_timestamp_milliseconds(clock)]
                     ELSE loc)
       \/ /\ \E e \in AwsErrors : Fail("put_rt", e, TRUE, loc)
          /\ UNCHANGED store
    /\ UNCHANGED <<wrapperVars, auxVars, etlVars, handler, clock, plays, issued, raw, cycles, atStart, prev>>

\* create_or_update_parameter('spotify_last_fetched_time', last_refresh_timestamp)
PutLastFetchedTime ==
    /\ pc = "put_wm"
    /\ Called("put_wm")
    /\ \/ /\ store' = [store EXCEPT !.spotify_last_fetched_time = loc.last_refresh_timestamp]
          /\ Succeed("put_wm", loc)
       \/ /\ \E e \in AwsErrors : Fail("put_wm", e, TRUE, loc)
          /\ UNCHANGED store
    /\ UNCHANGED <<wrapperVars, auxVars, etlVars, handler, clock, plays, issued, raw, cycles, atStart, prev>>

(***************************************************************************)
(* ETL Transformer                                                         *)
(***************************************************************************)
\* played_at of a raw event, in UTC: year, month, whether the instant lies
\* in the first hours of the month (before the local midnight), and whether
\* the string has the format the parser expects
PlayedAts ==
    {[year |-> 2025, month |-> 1, early |-> TRUE, wellformed |-> TRUE],
     [year |-> 2025, month |-> 1, early |-> FALSE, wellformed |-> TRUE],
     [year |-> 2025, month |-> 2, early |-> FALSE, wellformed |-> FALSE]}

\* raw play events: track URI, duration (has_duration: the key is present)
\* and played_at
RawEvents ==
    {e \in [uri : {"u1", "u2"}, has_duration : BOOLEAN, duration_ms : {0, 61000},
            played_at : PlayedAts] : (~ e.has_duration) => e.duration_ms = 0}

JsonLists == UNION {[1..n -> RawEvents] : n \in 0..MaxEvents}

\* S3 notifications: whether Records is non-empty, and the bucket name and
\* object key of its first record ("" also when the field is missing, which
\* the .get(..., '') defaults turn into the empty string)
Notifications ==
    {[records |-> FALSE, bucket |-> "", key |-> ""],
     [records |-> TRUE, bucket |-> "", key |-> ""],
     [records |-> TRUE, bucket |-> "", key |-> "raw/a.json"],
     [records |-> TRUE, bucket |-> "bucket", key |-> ""],
     [records |-> TRUE, bucket |-> "bucket", key |-> "raw/gone.json"],
     [records |-> TRUE, bucket |-> "bucket", key |-> "raw/a.json"]}

\* convert_utc_to_cst: the America/Chicago calendar month of a UTC instant
convert_utc_to_cst(p) ==
    IF ~ p.early
    THEN [year |-> p.year, month |-> p.month]
    ELSE IF p.month = 1
         THEN [year |-> p.year - 1, month |-> 12]
         ELSE [year |-> p.year, month |-> p.month - 1]

\* Strings are sequences of one-character strings.
DigitChars == <<"0", "1", "2", "3", "4", "5", "6", "7", "8", "9">>

\* str(n) of a non-negative integer
RECURSIVE str(_)
str(n) == IF n < 10 THEN <<DigitChars[n + 1]>> ELSE Append(str(n \div 10), DigitChars[(n % 10) + 1])

\* f'{n:02}': the decimal digits, zero-filled on the left to a width of at
\* least two
format_02_NoFill(n) == str(n)

format_02(n) == IF Len(str(n)) < 2 THEN <<"0">> \o str(n) ELSE str(n)

\* milliseconds_to_mmss: raises ValueError for a length <= 0, else formats
\* the minutes and seconds of the track length.  The float operations
\* track_length / 1000, // 60, % 60 and int() agree with integer division
\* for every length below 2^53.
milliseconds_to_mmss(track_length) ==
    IF track_length <= 0
    THEN [error |-> "ValueError", value |-> << >>]
    ELSE LET total_seconds == track_length \div 1000
             minutes == total_seconds \div 60
             seconds == total_seconds % 60
         IN  [error |-> "", value |-> format_02(minutes) \o <<":">> \o format_02(seconds)]

\* the exception the projection of one raw event raises ("" when none)
ItemError_Never(item) == ""

ItemError(item) ==
    IF ~ item.has_duration THEN "KeyError"
    ELSE IF milliseconds_to_mmss(item.duration_ms).error # ""
         THEN milliseconds_to_mmss(item.duration_ms).error
    ELSE IF ~ item.played_at.wellformed THEN "ValueError"
    ELSE ""

\* processed_data[track_uri] = {...}: a later event of the same URI replaces
\* the entry at the position the URI got first
SetEntry_KeepFirst(data, uri, info) ==
    IF \E i \in 1..Len(data) : data[i].track_id = uri
    THEN data
    ELSE Append(data, info)

SetEntry(data, uri, info) ==
    IF \E i \in 1..Len(data) : data[i].track_id = uri
    THEN [i \in 1..Len(data) |-> IF data[i].track_id = uri THEN info ELSE data[i]]
    ELSE Append(data, info)

RECURSIVE perform_etl_from(_, _, _)
perform_etl_from(json_data, i, data) ==
    IF i > Len(json_data)
    THEN [error |-> "", data |-> data]
    ELSE IF ItemError(json_data[i]) # ""
         THEN [error |-> ItemError(json_data[i]), data |-> << >>]
         ELSE perform_etl_from(json_data, i + 1,
                  SetEntry(data, json_data[i].uri,
                      [track_id |-> json_data[i].uri,
                       track_length |-> milliseconds_to_mmss(json_data[i].duration_ms).value,
                       played_at |-> convert_utc_to_cst(json_data[i].played_at)]))

perform_etl(json_data) == perform_etl_from(json_data, 1, << >>)

\* partitions[partition_key].append(track_record), a new key going last
AddToPartition_Replace(partitions, key, record) ==
    IF \E i \in 1..Len(partitions) : partitions[i].key = key
    THEN [i \in 1..Len(partitions) |->
            IF partitions[i].key = key
            THEN [partitions[i] EXCEPT !.records = <<record>>]
            ELSE partitions[i]]
    ELSE Append(partitions, [key |-> key, records |-> <<record>>])

AddToPartition_AlwaysNew(partitions, key, record) ==
    Append(partitions, [key |-> key, records |-> <<record>>])

AddToPartition(partitions, key, record) ==
    IF \E i \in 1..Len(partitions) : partitions[i].key = key
    THEN [i \in 1..Len(partitions) |->
            IF partitions[i].key = key
            THEN [partitions[i] EXCEPT !.records = Append(@, record)]
            ELSE partitions[i]]
    ELSE Append(partitions, [key |-> key, records |-> <<record>>])

RECURSIVE partition_from(_, _, _)
partition_from(track_data, i, partitions) ==
    IF i > Len(track_data)
    THEN partitions
    ELSE partition_from(track_data, i + 1,
             AddToPartition(partitions,
                            <<track_data[i].played_at.year, track_data[i].played_at.month>>,
                            track_data[i]))

partition_spotify_data(track_data) == partition_from(track_data, 1, << >>)

\* uuid.uuid4(): a value no earlier call has returned
uuid4_Fixed(objects) == 1

uuid4(objects) == Cardinality(DOMAIN objects) + 1

\* f'processed/year={year}/month={month}/{file_name}' in `bucket`
s3_key(bucket, year, month, file_name) ==
    [bucket |-> bucket, prefix |-> "processed", year |-> year, month |-> month,
     file |-> file_name]

\* locals of the Transformer's lambda_handler; `before`: the processed
\* objects that existed when it was invoked
NoEtlLocals ==
    [bucket |-> "", object |-> "", partitions |-> << >>, next |-> 1, before |-> {}]

EtlInit ==
    /\ t_event \in Notifications
    /\ t_objects \in {[k \in {"raw/a.json"} |-> j] : j \in JsonLists}
    /\ processed = << >>
    /\ t_pc = "idle"
    /\ t_tries = 0
    /\ t_loc = NoEtlLocals
    /\ t_outcome = NoOutcome
    /\ t_calls = [reads |-> 0, writes |-> 0]
    /\ t_runs = 0

\* the Transformer is not deployed in this execution environment
EtlOff ==
    /\ t_event = [records |-> FALSE, bucket |-> "", key |-> ""]
    /\ t_objects = << >>
    /\ processed = << >>
    /\ t_pc = "idle"
    /\ t_tries = 0
    /\ t_loc = NoEtlLocals
    /\ t_outcome = NoOutcome
    /\ t_calls = [reads |-> 0, writes |-> 0]
    /\ t_runs = 0

\* get_bucket_and_object(event) and the two checks of lambda_handler
ValidationError_KeyFirst(event) ==
    IF ~ event.records THEN OtherError("Exception")
    ELSE IF event.key = "" THEN OtherError("KeyError: No object name provided")
    ELSE IF event.bucket = "" THEN OtherError("KeyError: No bucket name provided")
    ELSE NoError

ValidationError(event) ==
    IF ~ event.records THEN OtherError("Exception")
    ELSE IF event.bucket = "" THEN OtherError("KeyError: No bucket name provided")
    ELSE IF event.key = "" THEN OtherError("KeyError: No object name provided")
    ELSE NoError

\* lambda_handler(event, context) of the Transformer is invoked: validation
InvokeEtl ==
    /\ handler = "etl"
    /\ t_pc = "idle"
    /\ t_runs < MaxRuns
    /\ t_runs' = t_runs + 1
    /\ t_tries' = 0
    /\ t_calls' = [reads |-> 0, writes |-> 0]
    /\ IF ValidationError(t_event) # NoError
       THEN /\ t_pc' = "idle"
            /\ t_loc' = [NoEtlLocals EXCEPT !.before = DOMAIN processed]
            /\ t_outcome' = Raised("validate", ValidationError(t_event), 0)
       ELSE /\ t_pc' = "read"
            /\ t_loc' = [NoEtlLocals EXCEPT !.bucket = t_event.bucket,
                                            !.object = t_event.key,
                                            !.before = DOMAIN processed]
            /\ t_outcome' = NoOutcome
    /\ UNCHANGED <<wrapperVars, auxVars, worldVars, cycleVars, t_event, t_objects, processed>>

\* the wrapped S3 call of `stage` raised e
EtlFail(stage, e) ==
    IF BackoffDecision(e, t_tries + 1) = "retry"
    THEN /\ t_tries' = t_tries + 1
         /\ UNCHANGED <<t_pc, t_outcome>>
    ELSE /\ t_tries' = 0
         /\ t_pc' = "idle"
         /\ t_outcome' = Raised(stage, e, t_tries + 1)

\* read_json_from_s3(bucket, object), then perform_etl and
\* partition_spotify_data on what it returned; with no partition the
\* handler returns at once
ReadJsonFromS3 ==
    /\ t_pc = "read"
    /\ t_calls' = [t_calls EXCEPT !.reads = @ + 1]
    /\ \/ /\ t_loc.object \in DOMAIN t_objects
          /\ LET done == perform_etl(t_objects[t_loc.object])
                 parts == partition_spotify_data(done.data)
             IN  /\ t_tries' = 0
                 /\ IF done.error # ""
                    THEN /\ t_pc' = "idle"
                         /\ t_outcome' = Raised("etl", OtherError(done.error), 0)
                         /\ t_loc' = t_loc
                    ELSE /\ t_loc' = [t_loc EXCEPT !.partitions = parts]
                         /\ t_pc' = IF parts = << >> THEN "idle" ELSE "write"
                         /\ t_outcome' = IF parts = << >>
                                         THEN Returned(200, "none", NoError, 0)
                                         ELSE t_outcome
       \/ /\ t_loc.object \notin DOMAIN t_objects
          /\ EtlFail("read", ClientError("NoSuchKey"))
          /\ t_loc' = t_loc
       \/ /\ \E e \in AwsErrors : EtlFail("read", e)
          /\ t_loc' = t_loc
    /\ UNCHANGED <<wrapperVars, auxVars, worldVars, cycleVars, t_event, t_objects, processed, t_runs>>

\* write_json_to_s3(records, bucket, processed/year=../month=../tracks_<uuid4>.json)
\* for the next partition; after the last one the handler returns 200
WriteJsonToS3 ==
    /\ t_pc = "write"
    /\ t_calls' = [t_calls EXCEPT !.writes = @ + 1]
    /\ \/ LET part == t_loc.partitions[t_loc.next]
              key == s3_key(t_loc.bucket, part.key[1], part.key[2], uuid4(processed))
          IN  /\ processed' = put_object(processed, key,
                                         [records |-> part.records, written_by |-> t_runs])
              /\ t_tries' = 0
              /\ t_loc' = [t_loc EXCEPT !.next = @ + 1]
              /\ IF t_loc.next = Len(t_loc.partitions)
                 THEN /\ t_pc' = "idle"
                      /\ t_outcome' = Returned(200, "none", NoError, 0)
                 ELSE UNCHANGED <<t_pc, t_outcome>>
       \/ /\ \E e \in AwsErrors : EtlFail("write", e)
          /\ UNCHANGED <<t_loc, processed>>
    /\ UNCHANGED <<wrapperVars, auxVars, worldVars, cycleVars, t_event, t_objects, t_runs>>

(***************************************************************************)
(* Dashboard (main.py): the rows read from the processed objects of a year *)
(* and the aggregates computed from them                                   *)
(***************************************************************************)
\* s.split(sep): the parts of s between the occurrences of sep
RECURSIVE split_from(_, _, _, _)
split_from(s, sep, i, parts) ==
    IF i > Len(s)
    THEN parts
    ELSE IF s[i] = sep
         THEN split_from(s, sep, i + 1, Append(parts, << >>))
         ELSE split_from(s, sep, i + 1,
                         [parts EXCEPT ![Len(parts)] = Append(@, s[i])])

split(s, sep) == split_from(s, sep, 1, << << >> >>)

DigitValue(c) == (CHOOSE i \in 1..10 : DigitChars[i] = c) - 1

\* Decimal(digits) of a string of decimal digits
RECURSIVE Decimal(_)
Decimal(digits) ==
    IF digits = << >>
    THEN 0
    ELSE (10 * Decimal(SubSeq(digits, 1, Len(digits) - 1))) + DigitValue(digits[Len(digits)])

\* convert_mmss_to_minutes, in sixtieths of a minute:
\* Decimal(minutes) + Decimal(seconds) / 60
convert_mmss_to_minutes(mmss_string) ==
    LET minutes == split(mmss_string, ":")[1]
        seconds == split(mmss_string, ":")[2]
    IN  (60 * Decimal(minutes)) + Decimal(seconds)

\* df['track_length_minutes']: round(..., 2), in hundredths of a minute
\* (x / 60 never lies half-way between two hundredths)
track_length_minutes(mmss_string) ==
    ((10 * convert_mmss_to_minutes(mmss_string)) + 3) \div 6

\* options of the year selectbox: range(2025, datetime.datetime.now().year + 1)
Years == 2025..2026

\* options of the month selectbox; NoMonth is its None
NoMonth == 0

\* keys read by read_json('.../processed/year=<year>/**/*.json'), or by
\* read_json('.../processed/year=<year>/month=<month>/*.json') with a month
generate_sql_query(objects, year, month) ==
    {k \in DOMAIN objects :
        /\ k.prefix = "processed"
        /\ k.year = year
        /\ month # NoMonth => k.month = month}

\* rows of `track` in the objects under `keys`
RECURSIVE CountRows(_, _, _)
CountRows(objects, keys, track) ==
    IF keys = {}
    THEN 0
    ELSE LET k == CHOOSE x \in keys : TRUE
             records == objects[k].records
         IN  Cardinality({i \in 1..Len(records) : records[i].track_id = track})
                 + CountRows(objects, keys \ {k}, track)

\* most_played_tracks: df.groupby(track).size() for one track
most_played_tracks(objects, year, month, track) ==
    CountRows(objects, generate_sql_query(objects, year, month), track)

RECURSIVE SumMinutes(_, _)
SumMinutes(records, i) ==
    IF i > Len(records)
    THEN 0
    ELSE track_length_minutes(records[i].track_length) + SumMinutes(records, i + 1)

RECURSIVE SumRows(_, _)
SumRows(objects, keys) ==
    IF keys = {}
    THEN 0
    ELSE LET k == CHOOSE x \in keys : TRUE
         IN  SumMinutes(objects[k].records, 1) + SumRows(objects, keys \ {k})

\* df['track_length_minutes'].sum(), in hundredths of a minute
total_minutes(objects, year, month) ==
    SumRows(objects, generate_sql_query(objects, year, month))

(***************************************************************************)
(* Two executions of the Fetcher's lambda_handler against one Token Store  *)
(* and one bucket: the steps of a cycle that read or write the watermark.  *)
(***************************************************************************)
Procs == {1, 2}

NoRaceLocals == [after |-> -1, items |-> {}, object_path |-> -1, last_refresh_timestamp |-> 0]

\* both executions are between their invocation and their return
InFlight_Never(at) == FALSE

InFlight(at) == \A p \in Procs : at[p] # "idle"

RaceInit ==
    /\ r_pc = [p \in Procs |-> "idle"]
    /\ r_loc = [p \in Procs |-> NoRaceLocals]
    /\ r_log = << >>
    /\ r_overlap = FALSE
    /\ r_cycles = 0

\* lambda_handler is invoked in execution p and reads spotify_last_fetched_time
RaceGetLastFetchedTime(p) ==
    /\ handler \in FetcherHandlers
    /\ r_pc[p] = "idle"
    /\ r_cycles < MaxCycles
    /\ r_cycles' = r_cycles + 1
    /\ r_loc' = [r_loc EXCEPT ![p] =
                    [NoRaceLocals EXCEPT !.after = store.spotify_last_fetched_time,
                                         !.last_refresh_timestamp = store.spotify_last_fetched_time]]
    /\ r_pc' = [r_pc EXCEPT ![p] = "api"]
    /\ r_overlap' = (r_overlap \/ InFlight(r_pc'))
    /\ UNCHANGED <<wrapperVars, worldVars, cycleVars, etlVars, pureVars, otherVars, r_log>>

\* requests.get(recently_played_url) in execution p; with items, the object
\* path is stamped, without items the handler returns 204
RaceGetRecentlyPlayed(p) ==
    /\ r_pc[p] = "api"
    /\ \E its \in RecentlyPlayed(r_loc[p].after) :
          /\ r_loc' = [r_loc EXCEPT ![p].items = its,
                                    ![p].object_path =
                                        IF HasItems(its) THEN current_timestamp(clock) ELSE -1]
          /\ r_pc' = [r_pc EXCEPT ![p] = IF HasItems(its) THEN "write" ELSE "idle"]
    /\ UNCHANGED <<wrapperVars, worldVars, cycleVars, etlVars, pureVars, otherVars, r_log, r_overlap, r_cycles>>

\* write_to_s3 in execution p
RaceWriteToS3(p) ==
    /\ r_pc[p] = "write"
    /\ raw' = put_object(raw, r_loc[p].object_path, r_loc[p].items)
    /\ r_pc' = [r_pc EXCEPT ![p] = "clock"]
    /\ UNCHANGED <<wrapperVars, cycleVars, etlVars, pureVars, otherVars, handler, clock, plays, issued, store,
                   r_loc, r_log, r_overlap, r_cycles>>

\* last_refresh_timestamp = get_current_unix_timestamp_milliseconds()
RaceReadClock(p) ==
    /\ r_pc[p] = "clock"
    /\ r_loc' = [r_loc EXCEPT ![p].last_refresh_timestamp =
                              get_current_unix_timestamp_milliseconds(clock)]
    /\ r_pc' = [r_pc EXCEPT ![p] = "put_wm"]
    /\ UNCHANGED <<wrapperVars, worldVars, cycleVars, etlVars, pureVars, otherVars, r_log, r_overlap, r_cycles>>

\* create_or_update_parameter('spotify_last_fetched_time', last_refresh_timestamp)
\* in execution p, which then returns 200
RacePutLastFetchedTime(p) ==
    /\ r_pc[p] = "put_wm"
    /\ store' = [store EXCEPT !.spotify_last_fetched_time = r_loc[p].last_refresh_timestamp]
    /\ r_log' = Append(r_log, [value |-> r_loc[p].last_refresh_timestamp, by |-> p])
    /\ r_pc' = [r_pc EXCEPT ![p] = "idle"]
    /\ UNCHANGED <<wrapperVars, cycleVars, etlVars, pureVars, otherVars, handler, clock, plays, issued, raw,
                   r_loc, r_overlap, r_cycles>>

(***************************************************************************)
(* milliseconds_to_mmss applied to one track length                        *)
(***************************************************************************)
MaxMinutes == 100

\* track lengths in milliseconds: around the minute and second boundaries,
\* and not positive
Durations ==
    {(m * 60000) + (sec * 1000) + ms :
        m \in {0, 1, 9, 10, 59, 60, 99, MaxMinutes}, sec \in {0, 1, 9, 10, 59}, ms \in {0, 1, 999}}
      \cup {0 - 61000, 0 - 1}

NotCalled == [error |-> "none", value |-> << >>]

PureInit ==
    /\ f_arg \in Durations
    /\ f_res = NotCalled

\* no pure-function call is under test in this execution environment
PureOff ==
    /\ f_arg = 0
    /\ f_res = NotCalled

\* milliseconds_to_mmss(track_length=f_arg)
CallMillisecondsToMmss ==
    /\ f_res = NotCalled
    /\ f_arg \in Durations
    /\ f_res' = milliseconds_to_mmss(f_arg)
    /\ UNCHANGED <<wrapperVars, worldVars, cycleVars, etlVars, raceVars, otherVars, f_arg>>

(***************************************************************************)
(* ParameterStoreClient.check_parameter_exists under the retry wrapper     *)
(***************************************************************************)
ParameterNames == {"spotify_access_token", "spotify_refresh_token", "spotify_last_fetched_time"}

NotFound == ClientError("ParameterNotFound")

\* what ssm get_parameter(Name=name) can answer: the parameter (NoError)
\* when the store holds the name, ParameterNotFound when it does not, or a
\* failure
StoreResponses(name, held) ==
    (IF name \in held THEN {NoError} ELSE {NotFound}) \cup AwsErrors

BodyReturn(v) == [kind |-> "return", value |-> v, err |-> NoError]

BodyRaise(e) == [kind |-> "raise", value |-> "none", err |-> e]

\* the body of check_parameter_exists for one answer of the store
check_parameter_exists_RaiseNotFound(response) ==
    IF response = NoError THEN BodyReturn("true") ELSE BodyRaise(response)

check_parameter_exists(response) ==
    IF response = NoError
    THEN BodyReturn("true")
    ELSE IF response.type = "ClientError" /\ response.code = "ParameterNotFound"
         THEN BodyReturn("false")
         ELSE BodyRaise(response)

ExistsOff ==
    /\ x_name = "spotify_refresh_token"
    /\ x_store = {}
    /\ x_responses = << >>
    /\ x_result = "none"

ExistsInit ==
    /\ x_name \in ParameterNames
    /\ x_store \in SUBSET ParameterNames
    /\ x_responses = << >>
    /\ x_result = "none"

\* one run of the body of check_parameter_exists inside the wrapper
CheckParameterExistsAttempt ==
    /\ w_state = "running"
    /\ x_result = "none"
    /\ \E response \in StoreResponses(x_name, x_store) :
          LET body == check_parameter_exists(response)
          IN  /\ x_responses' = Append(x_responses, response)
              /\ w_tries' = w_tries + 1
              /\ IF body.kind = "return"
                 THEN /\ w_state' = "returned"
                      /\ x_result' = body.value
                      /\ UNCHANGED <<w_errs, w_class, w_raised>>
                 ELSE /\ w_errs' = Append(w_errs, body.err)
                      /\ w_class' = Append(w_class, is_retryable_exception(body.err))
                      /\ x_result' = x_result
                      /\ IF BackoffDecision(body.err, w_tries + 1) = "raise"
                         THEN /\ w_state' = "raised"
                              /\ w_raised' = body.err
                         ELSE /\ w_state' = "running"
                              /\ w_raised' = w_raised
    /\ UNCHANGED <<worldVars, cycleVars, etlVars, raceVars, pureVars,
                   x_name, x_store, exchangeVars, authVars, keyVars, heatVars>>

(***************************************************************************)
(* request_access_token under the retry wrapper                            *)
(***************************************************************************)
AuthorizationTypes == {"initial_auth", "refresh_auth_token", "refresh", ""}

AuthTokens == {"code-1", "token-1", "token-2"}

\* os.getenv('REDIRECT_URI')
REDIRECT_URI == "redirect-uri"

\* the form data request_access_token builds, or the ValueError it raises
RequestData_RefreshWithRedirect(authorization_type, auth_token) ==
    IF authorization_type = "initial_auth"
    THEN [error |-> "", data |-> [grant_type |-> "authorization_code",
                                  code |-> auth_token,
                                  redirect_uri |-> REDIRECT_URI]]
    ELSE IF authorization_type = "refresh_auth_token"
         THEN [error |-> "", data |-> [grant_type |-> "refresh_token",
                                       refresh_token |-> auth_token,
                                       redirect_uri |-> REDIRECT_URI]]
         ELSE [error |-> "ValueError", data |-> << >>]

RequestData(authorization_type, auth_token) ==
    IF authorization_type = "initial_auth"
    THEN [error |-> "", data |-> [grant_type |-> "authorization_code",
                                  code |-> auth_token,
                                  redirect_uri |-> REDIRECT_URI]]
    ELSE IF authorization_type = "refresh_auth_token"
         THEN [error |-> "", data |-> [grant_type |-> "refresh_token",
                                       refresh_token |-> auth_token]]
         ELSE [error |-> "ValueError", data |-> << >>]

ExchangeOff ==
    /\ q_type = "refresh_auth_token"
    /\ q_token = "token-1"
    /\ q_sent = << >>

ExchangeInit ==
    /\ q_type \in AuthorizationTypes
    /\ q_token \in AuthTokens
    /\ q_sent = << >>

\* one run of the body of request_access_token inside the wrapper: the
\* data is built, posted, and raise_for_status is applied to the response
CallRequestAccessToken ==
    /\ w_state = "running"
    /\ LET request == RequestData(q_type, q_token)
           failed(e) ==
               /\ w_errs' = Append(w_errs, e)
               /\ w_class' = Append(w_class, is_retryable_exception(e))
               /\ IF BackoffDecision(e, w_tries + 1) = "raise"
                  THEN /\ w_state' = "raised"
                       /\ w_raised' = e
                  ELSE /\ w_state' = "running"
                       /\ w_raised' = w_raised
       IN  /\ w_tries' = w_tries + 1
           /\ IF request.error # ""
              THEN /\ failed(OtherError(request.error))
                   /\ q_sent' = q_sent
              ELSE /\ q_sent' = Append(q_sent, request.data)
                   /\ \/ /\ w_state' = "returned"
                         /\ UNCHANGED <<w_errs, w_class, w_raised>>
                      \/ \E e \in HttpErrors : failed(e)
    /\ UNCHANGED <<worldVars, cycleVars, etlVars, raceVars, pureVars,
                   existsVars, q_type, q_token, authVars, keyVars, heatVars>>

(***************************************************************************)
(* One-time authorization app (auth_flow.py): /login and /callback         *)
(***************************************************************************)
\* None, which is also what a missing query parameter is
NoState == 0

NoCode == ""

\* generate_state(): secrets.token_urlsafe(16), 128 random bits, a value no
\* earlier call has returned; n is the number of earlier calls
generate_state(n) == n + 1

\* the values a /callback request can carry as state: none, a value some
\* /login may generate, or one no /login generates
CallbackStates == 0..(MaxLogins + 1)

CallbackCodes == {NoCode, "code-1"}

\* generate_current_unix_timestamp(): the whole second the clock is in, in
\* clock ticks
generate_current_unix_timestamp(t) == (t \div TicksPerSecond) * TicksPerSecond

\* the names the module auth_flow binds at its top level
AuthFlowGlobals ==
    {"ParameterStoreClient", "app", "stored_state", "generate_state",
     "generate_current_unix_timestamp", "encode_string",
     "generate_authorization_url", "request_access_token", "home", "login",
     "callback"}

\* the name callback calls to build the Parameter Store client
StoreClientName == "parameterStoreClient"

NoRequest ==
    [request |-> "none", code |-> NoCode, state |-> NoState, status |-> 0,
     detail |-> "", exchange |-> "none"]

Response(request, code, state, status, detail, exchange) ==
    [request |-> request, code |-> code, state |-> state, status |-> status,
     detail |-> detail, exchange |-> exchange]

AuthInit ==
    /\ a_stored_state = NoState
    /\ a_generated = 0
    /\ a_accepted = << >>
    /\ a_exchanges = 0
    /\ a_params = << >>
    /\ a_last = NoRequest

\* the two checks of callback: the detail of the HTTPException(400) raised,
\* "" when the request passes
StateCheck_PresenceOnly(code, state, stored) ==
    IF state = NoState \/ code = NoCode
    THEN "Missing state or code"
    ELSE ""

StateCheck(code, state, stored) ==
    IF state = NoState \/ code = NoCode
    THEN "Missing state or code"
    ELSE IF state # stored
         THEN "State mismatch, possible CSRF attack."
         ELSE ""

\* stored_state = None after the checks
consume_state_Kept(stored) == stored

consume_state(stored) == NoState

\* create_or_update_parameter(..., overwrite=False) for each entry in turn:
\* put_parameter refuses a name the store already holds
RECURSIVE CreateParameters(_, _, _)
CreateParameters(params, entries, i) ==
    IF i > Len(entries)
    THEN [error |-> "", params |-> params]
    ELSE IF entries[i].name \in DOMAIN params
         THEN [error |-> "ParameterAlreadyExists", params |-> params]
         ELSE CreateParameters(put_object(params, entries[i].name, entries[i].value),
                               entries, i + 1)

\* GET /login
Login ==
    /\ a_generated < MaxLogins
    /\ a_generated' = a_generated + 1
    /\ a_stored_state' = generate_state(a_generated)
    /\ a_last' = Response("login", NoCode, NoState, 307, "", "none")
    /\ UNCHANGED <<wrapperVars, worldVars, cycleVars, etlVars, raceVars, pureVars,
                   existsVars, exchangeVars, a_accepted, a_exchanges, a_params,
                   keyVars, heatVars>>

\* GET /callback?code=..&state=..: the handler has no await, so it runs from
\* its first line to its return or exception without another request in
\* between.  An exception other than HTTPException is answered with 500.
Callback ==
    \E code \in CallbackCodes, state \in CallbackStates, exchange \in {"ok", "failed"} :
      LET detail == StateCheck(code, state, a_stored_state)
          tokens == <<[name |-> "spotify_access_token", value |-> "access_token"],
                      [name |-> "spotify_refresh_token", value |-> "refresh_token"],
                      [name |-> "spotify_last_fetched_time",
                       value |-> generate_current_unix_timestamp(clock)]>>
          created == CreateParameters(a_params, tokens, 1)
      IN  /\ IF detail # ""
             THEN /\ a_last' = Response("callback", code, state, 400, detail, "none")
                  /\ UNCHANGED <<a_stored_state, a_accepted, a_exchanges, a_params>>
             ELSE /\ a_stored_state' = consume_state(a_stored_state)
                  /\ a_accepted' = Append(a_accepted, state)
                  /\ a_exchanges' = a_exchanges + 1
                  /\ IF exchange = "failed"
                     THEN /\ a_last' = Response("callback", code, state, 500, "HTTPError", exchange)
                          /\ a_params' = a_params
                     ELSE IF StoreClientName \notin AuthFlowGlobals
                     THEN /\ a_last' = Response("callback", code, state, 500, "NameError", exchange)
                          /\ a_params' = a_params
                     ELSE /\ a_params' = created.params
                          /\ a_last' =
                               IF created.error # ""
                               THEN Response("callback", code, state, 500, created.error, exchange)
                               ELSE Response("callback", code, state, 200,
                                             "Authentication successful and tokens saved!",
                                             exchange)
          /\ UNCHANGED <<wrapperVars, worldVars, cycleVars, etlVars, raceVars, pureVars,
                         existsVars, exchangeVars, a_generated, keyVars, heatVars>>

(***************************************************************************)
(* Calendar arithmetic of datetime / pandas.Timestamp                      *)
(***************************************************************************)
\* days from 1970-01-01 to the date year-month-day (proleptic Gregorian)
days_from_civil(year, month, day) ==
    LET y == IF month <= 2 THEN year - 1 ELSE year
        era == y \div 400
        yoe == y - era * 400
        mp == IF month > 2 THEN month - 3 ELSE month + 9
        doy == (153 * mp + 2) \div 5 + day - 1
        doe == yoe * 365 + yoe \div 4 - yoe \div 100 + doy
    IN  era * 146097 + doe - 719468

\* the date that lies z days after 1970-01-01
civil_from_days(z) ==
    LET s == z + 719468
        era == s \div 146097
        doe == s - era * 146097
        yoe == (doe - doe \div 1460 + doe \div 36524 - doe \div 146096) \div 365
        doy == doe - (365 * yoe + yoe \div 4 - yoe \div 100)
        mp == (5 * doy + 2) \div 153
        d == doy - (153 * mp + 2) \div 5 + 1
        m == IF mp < 10 THEN mp + 3 ELSE mp - 9
    IN  [year |-> IF m <= 2 THEN yoe + era * 400 + 1 ELSE yoe + era * 400,
         month |-> m, day |-> d]

\* Timestamp.weekday() of the day z days after 1970-01-01, a Thursday:
\* Monday is 0, Sunday is 6
weekday(z) == (z + 3) % 7

(***************************************************************************)
(* The key of a raw object: the America/Chicago wall-clock time of the     *)
(* write, to the second                                                    *)
(***************************************************************************)
\* 2025-03-09 08:00:00 UTC and 2025-11-02 07:00:00 UTC, in epoch seconds:
\* the instants at which America/Chicago changes to UTC-5 and back to UTC-6
SpringForward == 1741507200

FallBack == 1762066800

\* utcoffset of America/Chicago at an instant of 2025, in seconds
utcoffset(t) == IF t >= SpringForward /\ t < FallBack THEN -18000 ELSE -21600

\* datetime.now(cst_timezone): the local wall-clock time, as the seconds
\* from 1970-01-01 00:00:00 on the local calendar
now_cst(t) == t + utcoffset(t)

\* strftime('%Y%m%d%H%M%S')
strftime_YmdHMS(local) ==
    LET date == civil_from_days(local \div 86400)
        second_of_day == local % 86400
    IN  str(date.year) \o format_02(date.month) \o format_02(date.day)
          \o format_02(second_of_day \div 3600)
          \o format_02((second_of_day % 3600) \div 60)
          \o format_02(second_of_day % 60)

\* f'raw/recently_played_tracks_{current_timestamp}.json'
object_path(t) ==
    <<"raw/recently_played_tracks_">> \o strftime_YmdHMS(now_cst(t)) \o <<".json">>

\* instants a quarter of an hour apart around the return to standard time
Instants == {FallBack + k * 900 : k \in (0 - MaxQuarters)..MaxQuarters}

KeysOff ==
    /\ k_instants = <<FallBack, FallBack + 900>>
    /\ k_keys = << >>

KeysInit ==
    /\ k_instants \in {pair \in Instants \X Instants : pair[1] < pair[2]}
    /\ k_keys = << >>

\* a Fetcher cycle that got items writes them at the next of the instants
WriteRawAt ==
    /\ Len(k_keys) < Len(k_instants)
    /\ LET n == Len(k_keys) + 1
           key == object_path(k_instants[n])
       IN  /\ raw' = put_object(raw, key, {n})
           /\ k_keys' = Append(k_keys, key)
    /\ UNCHANGED <<wrapperVars, handler, clock, plays, issued, store, cycleVars, etlVars,
                   raceVars, pureVars, existsVars, exchangeVars, authVars, k_instants,
                   heatVars>>

(***************************************************************************)
(* Dashboard (main.py): the heatmap cell of a play                         *)
(***************************************************************************)
\* years = range(2025, datetime.datetime.now().year + 1), the clock of the
\* dashboard having reached MaxYear
HeatYears == 2025..MaxYear

\* pd.Timestamp(f'{year}-01-01') and pd.Timestamp(f'{year}-12-31'), in days
jan1(year) == days_from_civil(year, 1, 1)

dec31(year) == days_from_civil(year, 12, 31)

\* days_to_sunday = (jan1.weekday() + 1) % 7 and
\* start_of_week1 = jan1 - Timedelta(days=days_to_sunday)
days_to_sunday(year) == (weekday(jan1(year)) + 1) % 7

start_of_week1(year) == jan1(year) - days_to_sunday(year)

\* ((played_at_date - start_of_week1).dt.days // 7) + 1
played_at_week_number(year, date) == ((date - start_of_week1(year)) \div 7) + 1

\* week_order = list(range(1, 54)): the categories of the week number
week_order == 1..53

\* dt.day_name() as its index in day_order / weekday_map: Sunday is 0
played_at_day_of_week(date) == (weekday(date) + 1) % 7

\* get_calendar_date(year, week_number, day_of_week)
get_calendar_date(year, week_number, day_of_week) ==
    start_of_week1(year) + 7 * (week_number - 1) + day_of_week

NoCell == [state |-> "none", week |-> 0, day |-> 0, date |-> 0, kept |-> FALSE]

\* the heatmap row a play of `date` adds its minutes to: a week number
\* outside the categories becomes NaN and groupby leaves the play out; the
\* row stays when its reconstructed date lies within the year
listening_heatmap(year, date) ==
    LET week == played_at_week_number(year, date)
        day == played_at_day_of_week(date)
        cell_date == get_calendar_date(year, week, day)
    IN  IF week \notin week_order
        THEN [state |-> "dropped", week |-> week, day |-> day, date |-> cell_date,
              kept |-> FALSE]
        ELSE [state |-> "cell", week |-> week, day |-> day, date |-> cell_date,
              kept |-> cell_date >= jan1(year) /\ cell_date <= dec31(year)]

HeatOff ==
    /\ h_year = 2025
    /\ h_day = 1
    /\ h_cell = NoCell

HeatInit ==
    /\ h_year \in HeatYears
    /\ h_day \in 1..(dec31(h_year) - jan1(h_year) + 1)
    /\ h_cell = NoCell

\* the dashboard renders the selected year with a play on day h_day of it
RenderHeatmap ==
    /\ h_cell = NoCell
    /\ h_cell' = listening_heatmap(h_year, jan1(h_year) + h_day - 1)
    /\ UNCHANGED <<wrapperVars, worldVars, cycleVars, etlVars, raceVars, pureVars,
                   existsVars, exchangeVars, authVars, keyVars, h_year, h_day>>

\* nothing but the component under study runs
OtherOff ==
    /\ ExistsOff
    /\ ExchangeOff
    /\ AuthInit
    /\ KeysOff
    /\ HeatOff

Init ==
    /\ WrapperInit
    /\ handler \in Handlers
    /\ WorldInit
    /\ CycleInit
    /\ IF handler = "etl" THEN EtlInit ELSE EtlOff
    /\ RaceInit
    /\ PureOff
    /\ OtherOff

Next ==
    \/ Tick
    \/ Play
    \/ StartCycle
    \/ GetRefreshToken
    \/ GetLastFetchedTime
    \/ RequestAccessToken
    \/ GetRecentlyPlayed
    \/ WriteToS3
    \/ PutRefreshToken
    \/ PutLastFetchedTime
    \/ InvokeEtl
    \/ ReadJsonFromS3
    \/ WriteJsonToS3

Spec == Init /\ [][Next]_vars

(***************************************************************************)
(* Properties of the Fetcher                                               *)
(***************************************************************************)
CycleEnded == pc = "idle" /\ outcome.kind # "none"

Success == outcome.kind = "return" /\ outcome.statusCode = 200

UpdateStages == {"put_rt", "put_wm"}

\* C1: at-least-once delivery: once a cycle has completed successfully,
\* every play event that occurred after the initially stored watermark and
\* before that cycle began is contained in at least one raw object.
C1_AtLeastOnceDelivery ==
    (CycleEnded /\ Success)
        => \A t \in plays :
              (t > InitialWatermark /\ t <= atStart.clock)
                  => \E k \in DOMAIN raw : t \in raw[k]

\* C2: when the API returns zero events the cycle ends with status 204,
\* calls neither the raw write nor a parameter update, and leaves the
\* stored refresh token, the stored watermark and the raw objects as they
\* were when the cycle started.
C2_NoNewDataIsNoOp ==
    (pc = "idle" /\ loc.fetched /\ loc.items = {})
        => /\ outcome.kind = "return"
           /\ outcome.statusCode = 204
           /\ store = atStart.store
           /\ raw = atStart.raw
           /\ \A i \in 1..Len(order) : order[i] \notin {"write", "put_rt", "put_wm"}

C2_Witness ==
    /\ pc = "idle"
    /\ cycles = 2
    /\ loc.fetched
    /\ loc.items = {}
    /\ plays # {}
    /\ outcome.statusCode = 204

StageOrder == <<"get_rt", "get_wm", "exchange", "api", "write", "put_rt", "put_wm">>

StagePos(stage) == CHOOSE i \in 1..Len(StageOrder) : StageOrder[i] = stage

\* C3: the stages are called in the order read-parameters, token-exchange,
\* API-call, raw-write, parameter-update, none is skipped except the
\* refresh-token update, and a stage that fails is the last one called:
\* the cycle has ended, a failed API call has written no raw object, a
\* failed raw write has updated no parameter, and an absent or empty access
\* token ends the cycle right after the one exchange that returned it.
C3_StagesInOrderStopAtFailure ==
    /\ \A i \in 1..Len(order) : \A j \in 1..Len(order) :
          i < j => StagePos(order[i]) < StagePos(order[j])
    /\ \A i \in 1..Len(order) :
          \A s \in Stages \ {"put_rt"} :
              StagePos(s) < StagePos(order[i]) => \E j \in 1..i : order[j] = s
    /\ outcome.stage # "none"
          => /\ pc = "idle"
             /\ order[Len(order)] = outcome.stage
             /\ outcome.stage \in {"get_rt", "get_wm", "exchange", "api"}
                   => (raw = atStart.raw /\ store = atStart.store)
             /\ outcome.stage = "write" => store = atStart.store
    /\ (loc.access_token \in {"absent", ""})
          => /\ pc = "idle"
             /\ outcome.stage = "exchange"
             /\ outcome.err.type \in {"None", "Other"}
             /\ order[Len(order)] = "exchange"

C3_Witness ==
    /\ pc = "idle"
    /\ outcome.stage = "write"
    /\ outcome.err = ClientError("AccessDenied")
    /\ order = <<"get_rt", "get_wm", "exchange", "api", "write">>
    /\ plays # {}

\* C4: when the parameter update fails after the raw object was written,
\* the raw object stays in storage with the fetched items and the stored
\* watermark keeps its pre-cycle value; no raw object is ever removed; and
\* the next cycle calls the API with the same `after` value.
C4_NoRollbackRefetchSameWindow ==
    /\ (pc = "idle" /\ outcome.stage \in UpdateStages)
          => /\ loc.object_path \in DOMAIN raw
             /\ raw[loc.object_path] = loc.items
             /\ store.spotify_last_fetched_time = atStart.store.spotify_last_fetched_time
    /\ DOMAIN atStart.raw \subseteq DOMAIN raw
    /\ (prev.stage \in UpdateStages /\ loc.after # -1) => loc.after = prev.after

C4_Witness ==
    /\ cycles = 2
    /\ prev.stage = "put_wm"
    /\ loc.fetched
    /\ loc.after = prev.after
    /\ DOMAIN raw # {}

EtlEnded == t_pc = "idle" /\ t_outcome.kind # "none"

StatusCodes == {200, 204, 404, 500}

\* C5 (as claimed): every Fetcher cycle and every Transformer invocation
\* ends by returning a structured status with code 200, 204, 404 or 500; no
\* stage failure leaves the handler as an exception.
C5_AlwaysStructuredStatus ==
    /\ CycleEnded => (outcome.kind = "return" /\ outcome.statusCode \in StatusCodes)
    /\ EtlEnded => (t_outcome.kind = "return" /\ t_outcome.statusCode \in StatusCodes)

\* C5 (amended): a cycle or invocation without a stage failure returns a
\* status, 200 on success and 204 on the Fetcher's empty result.  On a stage
\* failure only the status-returning Fetcher returns a status: 404 for an
\* absent or empty access token, 500 for a ClientError of a parameter read,
\* raw write or parameter update and for an HTTPError of the exchange or
\* the API call; any other exception leaves it.  The raising Fetcher and
\* the Transformer return no error status: every stage failure, input
\* validation and normalization included, leaves the handler as an
\* exception.
C5_StatusOrException ==
    /\ CycleEnded =>
          /\ outcome.stage = "none"
                => /\ outcome.kind = "return"
                   /\ outcome.statusCode = IF loc.items = {} THEN 204 ELSE 200
          /\ (outcome.stage # "none" /\ handler = "fetcher_status")
                => IF outcome.err = NoError
                   THEN outcome.kind = "return" /\ outcome.statusCode = 404
                   ELSE IF \/ /\ outcome.err.type = "ClientError"
                              /\ outcome.stage \in {"get_rt", "get_wm", "write", "put_rt", "put_wm"}
                           \/ /\ outcome.err.type = "HTTPError"
                              /\ outcome.stage \in {"exchange", "api"}
                        THEN outcome.kind = "return" /\ outcome.statusCode = 500
                        ELSE outcome.kind = "raise"
          /\ (outcome.stage # "none" /\ handler = "fetcher_raise") => outcome.kind = "raise"
    /\ EtlEnded =>
          /\ t_outcome.stage = "none"
                => (t_outcome.kind = "return" /\ t_outcome.statusCode = 200)
          /\ t_outcome.stage # "none" => t_outcome.kind = "raise"

C5_Witness ==
    /\ handler = "fetcher_status"
    /\ CycleEnded
    /\ outcome.statusCode = 500
    /\ outcome.stage = "put_wm"
    /\ outcome.calls = 5

\* C9: every outbound call of a cycle runs under the retry policy: a cycle
\* never ends on a stage whose single call failed with HTTP 429 or 5xx or
\* with an InternalServerError.
C9_EveryOutboundCallRetried ==
    (CycleEnded /\ outcome.stage # "none" /\
        \/ (outcome.err.type = "HTTPError" /\ outcome.err.status \in {429, 500, 502, 503, 504})
        \/ (outcome.err.type = "ClientError" /\ outcome.err.code = "InternalServerError"))
    => outcome.calls >= 2

\* C10: a cycle that ended in any outcome other than success left the
\* stored refresh token and the stored watermark at their values from the
\* start of the cycle.
C10_TokenRecordChangesOnlyOnSuccess ==
    (CycleEnded /\ ~ Success) => store = atStart.store

NextRetry ==
    \/ WrapperCall
    \/ WrapperAttemptOk
    \/ WrapperAttemptFail

InitRetry ==
    /\ WrapperInit
    /\ handler = "fetcher_raise"
    /\ WorldInit
    /\ CycleInit
    /\ EtlOff
    /\ RaceInit
    /\ PureOff
    /\ OtherOff

SpecRetry == InitRetry /\ [][NextRetry]_vars

AllRetryable(s) == \A i \in 1..Len(s) : is_retryable_exception(s[i])

C7_NonRetryablePropagatesAtOnce ==
    (Len(w_errs) >= 1 /\
       \/ (w_errs[1].type = "HTTPError" /\ w_errs[1].status \in {400, 401, 403, 404})
       \/ (w_errs[1].type = "ClientError" /\
             w_errs[1].code \in {"NoSuchKey", "AccessDenied", "ParameterNotFound"})
       \/ w_errs[1].type = "Other")
    => (w_state = "raised" /\ w_tries = 1 /\ w_raised = w_errs[1])

C7_Witness ==
    /\ w_state = "raised"
    /\ w_tries = 1
    /\ w_raised = ClientError("NoSuchKey")

\* C8: the retryability predicate is exact: an error is classified
\* retryable iff it is an HTTP error with status 429/500/502/503/504 or a
\* client error with code InternalServerError.
C8_RetryablePredicateExact ==
    \A i \in 1..Len(w_errs) :
        w_class[i] <=>
            \/ (w_errs[i].type = "HTTPError" /\ w_errs[i].status \in {429, 500, 502, 503, 504})
            \/ (w_errs[i].type = "ClientError" /\ w_errs[i].code = "InternalServerError")

C8_Witness ==
    /\ Len(w_errs) = 2
    /\ w_errs[1] = ClientError("InternalServerError")
    /\ w_class[1]
    /\ w_errs[2] = HTTPError(404)
    /\ ~ w_class[2]

(***************************************************************************)
(* Properties of a successful Fetcher cycle                                *)
(***************************************************************************)
\* C11: a cycle that fetched at least one event and whose writes all
\* succeeded has written exactly one raw object, holding the returned items
\* unchanged, under the stamped key; it has then overwritten the stored
\* refresh token if and only if the exchange returned a non-empty one, and
\* last overwritten the watermark with the clock value it read when the raw
\* object was already written; it returns status 200.
C11_SuccessWritesRawTokenWatermark ==
    /\ [](CycleEnded /\ outcome.stage = "none" /\ loc.items # {}
            => /\ Success
               /\ DOMAIN raw = (DOMAIN atStart.raw) \cup {loc.object_path}
               /\ raw[loc.object_path] = loc.items
               /\ \A k \in (DOMAIN atStart.raw) \ {loc.object_path} : raw[k] = atStart.raw[k]
               /\ order = <<"get_rt", "get_wm", "exchange", "api", "write">>
                              \o (IF loc.refresh_token # 0 THEN <<"put_rt">> ELSE << >>)
                              \o <<"put_wm">>
               /\ store.spotify_refresh_token =
                     IF loc.refresh_token # 0
                     THEN loc.refresh_token
                     ELSE atStart.store.spotify_refresh_token
               /\ store.spotify_last_fetched_time = loc.last_refresh_timestamp)
    /\ [][(pc # "put_wm" /\ pc' = "put_wm")
            => /\ loc'.last_refresh_timestamp = clock'
               /\ loc.object_path \in DOMAIN raw'
               /\ raw'[loc.object_path] = loc.items]_vars

C11_Witness ==
    /\ CycleEnded
    /\ Success
    /\ cycles = 2
    /\ loc.refresh_token = 2
    /\ store.spotify_refresh_token = 2
    /\ store.spotify_last_fetched_time = 2
    /\ Cardinality(DOMAIN raw) = 2

(***************************************************************************)
(* Two concurrent Fetcher cycles                                           *)
(***************************************************************************)
NextRace ==
    \/ Tick
    \/ Play
    \/ \E p \in Procs : RaceGetLastFetchedTime(p)
    \/ \E p \in Procs : RaceGetRecentlyPlayed(p)
    \/ \E p \in Procs : RaceWriteToS3(p)
    \/ \E p \in Procs : RaceReadClock(p)
    \/ \E p \in Procs : RacePutLastFetchedTime(p)

InitRace ==
    /\ WrapperInit
    /\ handler = "fetcher_raise"
    /\ WorldInit
    /\ CycleInit
    /\ EtlOff
    /\ RaceInit
    /\ PureOff
    /\ OtherOff

SpecRace == InitRace /\ [][NextRace]_vars

\* the watermark in the store is earlier than one that was stored before it
WatermarkRegressed ==
    \E i \in 1..Len(r_log) : \E j \in 1..Len(r_log) :
        i < j /\ r_log[j].value < r_log[i].value

\* C12: the store holds the watermark of the latest write, every stored
\* watermark is a clock reading of the past, and a watermark earlier than
\* one stored before it is left in the store only by two cycles that were
\* in flight at once; the witness is the interleaving in which that
\* happens: the later write carries the older clock reading.
C12_WatermarkRegressesOnlyByRace ==
    /\ store.spotify_last_fetched_time =
          IF r_log = << >> THEN InitialWatermark ELSE r_log[Len(r_log)].value
    /\ \A i \in 1..Len(r_log) : r_log[i].value <= clock
    /\ WatermarkRegressed => r_overlap

C12_Witness ==
    /\ \A p \in Procs : r_pc[p] = "idle"
    /\ Len(r_log) = 2
    /\ r_log[1].by # r_log[2].by
    /\ r_log[2].value < r_log[1].value
    /\ store.spotify_last_fetched_time = r_log[2].value
    /\ store.spotify_last_fetched_time < clock

(***************************************************************************)
(* Track-length formatting                                                 *)
(***************************************************************************)
NextPure == CallMillisecondsToMmss

InitPure ==
    /\ WrapperInit
    /\ handler = "etl"
    /\ WorldInit
    /\ CycleInit
    /\ EtlOff
    /\ RaceInit
    /\ PureInit
    /\ OtherOff

SpecPure == InitPure /\ [][NextPure]_vars

IsDigits(chars) == \A i \in 1..Len(chars) : \E d \in 1..10 : DigitChars[d] = chars[i]

\* C13: for a length d > 0 the result is the minutes floor(d/60000) and the
\* seconds floor(d/1000) mod 60 in decimal, each filled with zeros on the
\* left to two digits and no further, joined by one colon; for d <= 0 the
\* call raises and returns no string.
C13_MmssRoundTrips ==
    f_res # NotCalled
        => IF f_arg > 0
           THEN /\ f_res.error = ""
                /\ Len(split(f_res.value, ":")) = 2
                /\ \A i \in 1..2 :
                      LET part == split(f_res.value, ":")[i]
                      IN  /\ IsDigits(part)
                          /\ Len(part) >= 2
                          /\ Len(part) > 2 => part[1] # "0"
                /\ Decimal(split(f_res.value, ":")[1]) = f_arg \div 60000
                /\ Decimal(split(f_res.value, ":")[2]) = (f_arg \div 1000) % 60
           ELSE /\ f_res.error = "ValueError"
                /\ f_res.value = << >>

C13_Witness ==
    /\ f_arg = 61999
    /\ f_res = [error |-> "", value |-> <<"0", "1", ":", "0", "1">>]

\* C14: every track_length produced for a positive length is exactly two
\* minute digits, a colon and two second digits, the seconds in 00..59.
C14_TrackLengthWellFormed ==
    (f_res # NotCalled /\ f_res.error = "")
        => /\ Len(f_res.value) = 5
           /\ f_res.value[3] = ":"
           /\ IsDigits(SubSeq(f_res.value, 1, 2))
           /\ IsDigits(SubSeq(f_res.value, 4, 5))
           /\ Decimal(SubSeq(f_res.value, 4, 5)) <= 59

(***************************************************************************)
(* Properties of the Transformer                                           *)
(***************************************************************************)
\* the Transformer alone, triggered by one notification
NextEtl ==
    \/ InvokeEtl
    \/ ReadJsonFromS3
    \/ WriteJsonToS3

InitEtl ==
    /\ WrapperInit
    /\ handler = "etl"
    /\ WorldInit
    /\ CycleInit
    /\ EtlInit
    /\ RaceInit
    /\ PureOff
    /\ OtherOff

SpecEtl == InitEtl /\ [][NextEtl]_vars

EtlSucceeded == EtlEnded /\ t_outcome.kind = "return" /\ t_outcome.statusCode = 200

\* the partitions of this invocation have been computed
Partitioned == t_pc = "write" \/ EtlSucceeded

\* the raw list the invocation read
EtlInput == t_objects[t_loc.object]

UrisOf(json_data) == {json_data[i].uri : i \in 1..Len(json_data)}

\* the last event of the list that has the URI
LastEvent(json_data, uri) ==
    json_data[CHOOSE i \in 1..Len(json_data) :
                 /\ json_data[i].uri = uri
                 /\ \A j \in (i + 1)..Len(json_data) : json_data[j].uri # uri]

\* local (America/Chicago) year and month of the last event with the URI
LocalMonth(json_data, uri) == convert_utc_to_cst(LastEvent(json_data, uri).played_at)

RECURSIVE SumSizes(_, _)
SumSizes(partitions, i) ==
    IF i > Len(partitions) THEN 0 ELSE Len(partitions[i].records) + SumSizes(partitions, i + 1)

\* C15: every record of the input mapping is in exactly one bucket, the
\* key of that bucket is the year and month of the record's played_at, no
\* two buckets have the same key, the bucket sizes add up to the number of
\* input records, and the empty mapping yields no bucket.
C15_PartitionTotal ==
    Partitioned
        => LET track_data == perform_etl(EtlInput).data
               partitions == t_loc.partitions
               places(r) == {<<b, j>> \in (1..Len(partitions)) \X (1..MaxEvents) :
                                /\ j <= Len(partitions[b].records)
                                /\ partitions[b].records[j] = r}
           IN  /\ \A i \in 1..Len(track_data) :
                     /\ Cardinality(places(track_data[i])) = 1
                     /\ \A pl \in places(track_data[i]) :
                           partitions[pl[1]].key =
                               <<track_data[i].played_at.year, track_data[i].played_at.month>>
               /\ \A b \in 1..Len(partitions) : \A c \in 1..Len(partitions) :
                     partitions[b].key = partitions[c].key => b = c
               /\ \A b \in 1..Len(partitions) : partitions[b].records # << >>
               /\ SumSizes(partitions, 1) = Len(track_data)
               /\ track_data = << >> => partitions = << >>

C15_Witness ==
    /\ t_pc = "write"
    /\ Len(EtlInput) = 2
    /\ Len(t_loc.partitions) = 1
    /\ Len(t_loc.partitions[1].records) = 2
    /\ t_loc.partitions[1].key = <<2024, 12>>

\* the objects this invocation has added
NewObjects == (DOMAIN processed) \ t_loc.before

\* C16: a successful invocation has added exactly one object for every
\* local (year, month) in which a track of the raw list was last played and
\* none for another month, each under processed/year=<Y>/month=<M>/ of the
\* triggering bucket and holding exactly the records of that month; so n
\* events with different URIs of one local month give one object of n
\* records.
C16_OneObjectPerMonth ==
    EtlSucceeded
        => LET uris == UrisOf(EtlInput)
               months == {LocalMonth(EtlInput, u) : u \in uris}
           IN  /\ Cardinality(NewObjects) = Cardinality(months)
               /\ \A k \in NewObjects :
                     LET in_month == {u \in uris :
                                        LocalMonth(EtlInput, u) = [year |-> k.year, month |-> k.month]}
                         records == processed[k].records
                     IN  /\ k.bucket = t_event.bucket
                         /\ k.prefix = "processed"
                         /\ in_month # {}
                         /\ {records[j].track_id : j \in 1..Len(records)} = in_month
                         /\ Len(records) = Cardinality(in_month)
                         /\ \A j \in 1..Len(records) :
                               records[j].played_at = [year |-> k.year, month |-> k.month]
               /\ \A k1 \in NewObjects : \A k2 \in NewObjects :
                     (k1.year = k2.year /\ k1.month = k2.month) => k1 = k2

C16_Witness ==
    /\ EtlSucceeded
    /\ Len(EtlInput) = 2
    /\ EtlInput[1].uri # EtlInput[2].uri
    /\ Cardinality(NewObjects) = 1
    /\ \A k \in NewObjects : Len(processed[k].records) = 2 /\ k.year = 2025 /\ k.month = 1

\* C17: no step of any invocation, a failing one included, removes a
\* processed object or changes what is stored under an existing key.
C17_PartitionsAppendOnly ==
    [][\A k \in DOMAIN processed : k \in DOMAIN processed' /\ processed'[k] = processed[k]]_vars

C17_Witness ==
    /\ t_runs = 2
    /\ EtlEnded
    /\ t_outcome.kind = "raise"
    /\ t_outcome.stage = "write"
    /\ Cardinality(t_loc.before) = 2
    /\ Cardinality(NewObjects) = 1

\* the objects restricted to a set of keys
Only(objects, keys) == [k \in keys |-> objects[k]]

\* C18: after a second successful invocation on the same raw object the
\* dashboard's per-track play counts and listened-minute totals equal those
\* computed from the objects of one invocation alone.
C18_RetryInvisibleToDashboard ==
    (EtlSucceeded /\ t_runs = 2)
        => \A year \in Years :
              /\ total_minutes(processed, year, NoMonth)
                    = total_minutes(Only(processed, NewObjects), year, NoMonth)
              /\ \A track \in {"u1", "u2"} :
                    most_played_tracks(processed, year, NoMonth, track)
                        = most_played_tracks(Only(processed, NewObjects), year, NoMonth, track)

\* C19: the normalized output has exactly one record per distinct URI of
\* the raw list; it carries the track length and the local played_at of
\* the last event with that URI and lies in the partition of that
\* played_at; no other record exists.
C19_LastOccurrenceWins ==
    Partitioned
        => LET partitions == t_loc.partitions
               uris == UrisOf(EtlInput)
               places(u) == {<<b, j>> \in (1..Len(partitions)) \X (1..MaxEvents) :
                                /\ j <= Len(partitions[b].records)
                                /\ partitions[b].records[j].track_id = u}
           IN  /\ \A u \in uris :
                     /\ Cardinality(places(u)) = 1
                     /\ \A pl \in places(u) :
                           LET r == partitions[pl[1]].records[pl[2]]
                               last == LastEvent(EtlInput, u)
                           IN  /\ r.played_at = convert_utc_to_cst(last.played_at)
                               /\ r.track_length = milliseconds_to_mmss(last.duration_ms).value
                               /\ partitions[pl[1]].key = <<r.played_at.year, r.played_at.month>>
               /\ SumSizes(partitions, 1) = Cardinality(uris)

C19_Witness ==
    /\ EtlSucceeded
    /\ Len(EtlInput) = 2
    /\ EtlInput[1].uri = EtlInput[2].uri
    /\ EtlInput[1].played_at.early
    /\ ~ EtlInput[2].played_at.early
    /\ Cardinality(NewObjects) = 1
    /\ \A k \in NewObjects : k.year = 2025 /\ k.month = 1 /\ Len(processed[k].records) = 1

\* C20: a notification whose first record has an empty or missing bucket
\* name or object key makes every invocation end with the KeyError of the
\* validation, the bucket's when the bucket is empty and otherwise the
\* key's, without any read or write call, without any attempt counted by
\* the retry wrapper, and without a processed object.
C20_BadNotificationFailsBeforeStorage ==
    (t_event.records /\ (t_event.bucket = "" \/ t_event.key = ""))
        => /\ t_pc = "idle"
           /\ t_calls = [reads |-> 0, writes |-> 0]
           /\ t_tries = 0
           /\ processed = << >>
           /\ t_runs > 0
                 => /\ t_outcome.kind = "raise"
                    /\ t_outcome.stage = "validate"
                    /\ t_outcome.calls = 0
                    /\ t_outcome.err =
                          IF t_event.bucket = ""
                          THEN OtherError("KeyError: No bucket name provided")
                          ELSE OtherError("KeyError: No object name provided")

C20_Witness ==
    /\ t_runs = 2
    /\ t_event.records
    /\ t_event.bucket = ""
    /\ t_event.key = ""
    /\ t_outcome.err = OtherError("KeyError: No bucket name provided")

(***************************************************************************)
(* check_parameter_exists alone                                            *)
(***************************************************************************)
NextExists ==
    \/ WrapperCall
    \/ CheckParameterExistsAttempt

InitExists ==
    /\ WrapperInit
    /\ handler = "fetcher_raise"
    /\ WorldInit
    /\ CycleInit
    /\ EtlOff
    /\ RaceInit
    /\ PureOff
    /\ ExistsInit
    /\ ExchangeOff
    /\ AuthInit
    /\ KeysOff
    /\ HeatOff

SpecExists == InitExists /\ [][NextExists]_vars

\* C21: check_parameter_exists returns True only when the store holds the
\* name and False only when it does not; a not-found answer of the store is
\* never followed by another call and always ends the call with False, so a
\* not-found answer to the first call means exactly one call; an error that
\* leaves the call is the last answer of the store and is neither not-found
\* nor a success; an answer is followed by another call only when it is
\* InternalServerError, and a permission or connection error ends the call
\* at once; at most max_tries calls are made.
C21_ExistenceCheck ==
    LET n == Len(x_responses)
    IN  /\ w_tries = n
        /\ n <= max_tries
        /\ x_result = "true"
              => /\ x_name \in x_store
                 /\ w_state = "returned"
                 /\ x_responses[n] = NoError
        /\ x_result = "false"
              => /\ x_name \notin x_store
                 /\ w_state = "returned"
                 /\ x_responses[n] = ClientError("ParameterNotFound")
        /\ \A i \in 1..n :
              x_responses[i] = ClientError("ParameterNotFound")
                  => i = n /\ x_result = "false"
        /\ \A i \in 1..n :
              i < n => x_responses[i] = ClientError("InternalServerError")
        /\ \A i \in 1..n :
              x_responses[i] \in {ClientError("AccessDenied"), OtherError("ConnectionError")}
                  => i = n /\ w_state = "raised"
        /\ w_state = "raised"
              => /\ x_result = "none"
                 /\ w_raised = x_responses[n]
                 /\ w_raised \notin {NoError, ClientError("ParameterNotFound")}
                 /\ w_raised = ClientError("InternalServerError") => n = max_tries

C21_Witness ==
    /\ x_result = "false"
    /\ w_tries = 1
    /\ x_name \notin x_store
    /\ x_store # {}

(***************************************************************************)
(* request_access_token alone                                              *)
(***************************************************************************)
NextExchange ==
    \/ WrapperCall
    \/ CallRequestAccessToken

InitExchange ==
    /\ WrapperInit
    /\ handler = "fetcher_raise"
    /\ WorldInit
    /\ CycleInit
    /\ EtlOff
    /\ RaceInit
    /\ PureOff
    /\ ExistsOff
    /\ ExchangeInit
    /\ AuthInit
    /\ KeysOff
    /\ HeatOff

SpecExchange == InitExchange /\ [][NextExchange]_vars

NextAuth ==
    \/ Login
    \/ Callback

InitAuth ==
    /\ WrapperInit
    /\ handler = "fetcher_raise"
    /\ WorldInit
    /\ CycleInit
    /\ EtlOff
    /\ RaceInit
    /\ PureOff
    /\ OtherOff

SpecAuth == InitAuth /\ [][NextAuth]_vars

\* the step is a /callback request (a request that repeats the last one
\* with the same answer changes nothing)
CallbackStep == a_last'.request = "callback" /\ a_last' # a_last

Accepted(state) == \E i \in 1..Len(a_accepted) : a_accepted[i] = state

\* C23: a callback makes a token exchange exactly when it carries a code
\* and a state and the state is the one the most recent /login generated
\* and no callback has been accepted with it; every other callback is
\* answered 400 and leaves the exchanges, the Token Store and the stored
\* state as they were.
C23_CallbackStateCheck ==
    [][CallbackStep
         => IF /\ a_last'.code # NoCode
               /\ a_last'.state # NoState
               /\ a_generated > 0
               /\ a_last'.state = generate_state(a_generated - 1)
               /\ ~ Accepted(a_last'.state)
            THEN /\ a_exchanges' = a_exchanges + 1
                 /\ a_last'.status # 400
            ELSE /\ a_last'.status = 400
                 /\ a_exchanges' = a_exchanges
                 /\ a_params' = a_params
                 /\ a_accepted' = a_accepted
                 /\ a_stored_state' = a_stored_state]_vars

C23_Witness ==
    /\ a_generated = 3
    /\ a_accepted = <<2>>
    /\ a_last.request = "callback"
    /\ a_last.code # NoCode
    /\ a_last.state = 1
    /\ a_last.status = 400
    /\ a_exchanges = 1

\* C24: a callback that passed the checks and whose token exchange
\* succeeded has created the access token, the refresh token and the
\* watermark of the current second in the Token Store and is answered with
\* the success message.
C24_AcceptedCallbackStoresTokens ==
    (a_last.request = "callback" /\ a_last.exchange = "ok")
        => /\ a_last.status = 200
           /\ a_last.detail = "Authentication successful and tokens saved!"
           /\ DOMAIN a_params = ParameterNames
           /\ a_params["spotify_last_fetched_time"] = generate_current_unix_timestamp(clock)

(***************************************************************************)
(* Two raw writes alone                                                    *)
(***************************************************************************)
NextKeys == WriteRawAt

InitKeys ==
    /\ WrapperInit
    /\ handler = "fetcher_raise"
    /\ WorldInit
    /\ CycleInit
    /\ EtlOff
    /\ RaceInit
    /\ PureOff
    /\ ExistsOff
    /\ ExchangeOff
    /\ AuthInit
    /\ KeysInit
    /\ HeatOff

SpecKeys == InitKeys /\ [][NextKeys]_vars

\* C25: two raw writes at instants at least one second apart go to
\* different object keys, so both objects exist afterwards with what was
\* written to them.
C25_RawNeverOverwritten ==
    (Len(k_keys) = 2 /\ k_instants[2] - k_instants[1] >= 1)
        => /\ k_keys[1] # k_keys[2]
           /\ DOMAIN raw = {k_keys[1], k_keys[2]}
           /\ raw[k_keys[1]] = {1}
           /\ raw[k_keys[2]] = {2}

\* C26: when a Fetcher cycle has ended, whatever its outcome, the Token
\* Store holds the refresh token the identity provider issued last.
C26_StoredRefreshTokenIsLatest ==
    CycleEnded => store.spotify_refresh_token = issued

\* an event whose normalization fails: no duration, a duration that is not
\* positive, or a played_at the parser rejects
BadEvent(e) == (~ e.has_duration) \/ e.duration_ms <= 0 \/ ~ e.played_at.wellformed

HasBadEvent(json_data) == \E i \in 1..Len(json_data) : BadEvent(json_data[i])

\* C27: when an event of the raw object cannot be normalized, no
\* invocation of the Transformer on it makes a write call, holds a
\* partition or leaves a processed object, and none returns: it ends with
\* an exception, the KeyError or ValueError of the normalization once the
\* object has been read.
C27_BadEventWritesNothing ==
    HasBadEvent(t_objects["raw/a.json"])
        => /\ processed = << >>
           /\ t_calls.writes = 0
           /\ t_pc # "write"
           /\ t_loc.partitions = << >>
           /\ EtlEnded
                 => /\ t_outcome.kind = "raise"
                    /\ t_outcome.stage \in {"validate", "read", "etl"}
                    /\ t_outcome.stage = "etl"
                          => t_outcome.err \in {OtherError("KeyError"), OtherError("ValueError")}

C27_Witness ==
    /\ EtlEnded
    /\ t_outcome.stage = "etl"
    /\ Len(EtlInput) = 2
    /\ ~ BadEvent(EtlInput[1])
    /\ convert_utc_to_cst(EtlInput[1].played_at) = [year |-> 2025, month |-> 1]
    /\ EtlInput[2].has_duration
    /\ EtlInput[2].duration_ms > 0
    /\ ~ EtlInput[2].played_at.wellformed
    /\ processed = << >>

\* C28: the stored watermark is never later than the clock, no step makes
\* it smaller, and a step that changes it leaves it no later than the clock.
C28_WatermarkMonotone ==
    /\ [](store.spotify_last_fetched_time <= clock)
    /\ [][/\ store'.spotify_last_fetched_time >= store.spotify_last_fetched_time
          /\ store'.spotify_last_fetched_time # store.spotify_last_fetched_time
                => store'.spotify_last_fetched_time <= clock']_vars

C28_Witness ==
    /\ cycles = 2
    /\ CycleEnded
    /\ Success
    /\ atStart.store.spotify_last_fetched_time > InitialWatermark
    /\ store.spotify_last_fetched_time > atStart.store.spotify_last_fetched_time

\* C29: no state value passes the state check twice; the callback that
\* passes it leaves the stored state cleared, and a later callback with a
\* state that has already passed is answered 400 and exchanges nothing,
\* whatever /login requests came in between.
C29_StateAcceptedOnce ==
    /\ [](\A i, j \in 1..Len(a_accepted) : a_accepted[i] = a_accepted[j] => i = j)
    /\ [][a_accepted' # a_accepted => a_stored_state' = NoState]_vars
    /\ [][(CallbackStep /\ Accepted(a_last'.state))
             => /\ a_last'.status = 400
                /\ a_accepted' = a_accepted
                /\ a_exchanges' = a_exchanges]_vars

C29_Witness ==
    /\ a_accepted = <<1>>
    /\ a_generated = 1
    /\ a_stored_state = NoState
    /\ a_last.request = "callback"
    /\ a_last.code = "code-1"
    /\ a_last.state = 1
    /\ a_last.status = 400
    /\ a_last.detail = "State mismatch, possible CSRF attack."

(***************************************************************************)
(* The heatmap alone                                                       *)
(***************************************************************************)
NextHeat == RenderHeatmap

InitHeat ==
    /\ WrapperInit
    /\ handler = "fetcher_raise"
    /\ WorldInit
    /\ CycleInit
    /\ EtlOff
    /\ RaceInit
    /\ PureOff
    /\ ExistsOff
    /\ ExchangeOff
    /\ AuthInit
    /\ KeysOff
    /\ HeatInit

SpecHeat == InitHeat /\ [][NextHeat]_vars

\* C30: a play on any day of a selectable year gets a week number in
\* 1..53 and so a heatmap cell; get_calendar_date of that cell is the day
\* of the play, and the clipping keeps the cell.
C30_EveryDayHasItsCell ==
    h_cell # NoCell
        => /\ h_cell.week \in 1..53
           /\ h_cell.state = "cell"
           /\ h_cell.date = jan1(h_year) + h_day - 1
           /\ h_cell.kept

====
